---- MODULE Spec2Model ----
(***************************************************************************)
(* Model of modul_training.py: the Training class hierarchy (Running,      *)
(* SportsWalking, Swimming), the InfoMessage dataclass, read_package and   *)
(* main.                                                                   *)
(*                                                                         *)
(* Python numbers are modelled as exact rationals [n |-> _, d |-> _] in    *)
(* lowest terms (d > 0); a raised exception is the record [exc |-> name].  *)
(* Every arithmetic operator takes and returns such values and propagates  *)
(* an exception of an operand, as evaluation of a Python expression does.  *)
(* Binary floating-point rounding error is not modelled.                   *)
(***************************************************************************)
EXTENDS Integers, Sequences, FiniteSets, TLC

VARIABLES
    training,     \* the caller's Training instance (NoTraining before the first one)
    info,         \* the InfoMessage last returned by show_training_info (NoInfo before)
    lastCall,     \* the last call made: its name; for read_package its arguments; for
                  \* a query, whether it had been called on this instance before
    result,       \* what the last call returned, or the exception it raised
    stdout,       \* the lines printed so far
    firstResult   \* history: for each query called on this instance, what its first call gave

vars == <<training, info, lastCall, result, stdout, firstResult>>

(***************************************************************************)
(* Bounds of the model.                                                    *)
(***************************************************************************)
MaxPrints == 2

(***************************************************************************)
(* Numbers and exceptions.                                                 *)
(***************************************************************************)
Abs(i) == IF i < 0 THEN -i ELSE i

RECURSIVE GCD(_, _)
GCD(a, b) == IF b = 0 THEN a ELSE GCD(b, a % b)

\* the rational n/d (d # 0) in lowest terms with a positive denominator
Frac(n, d) ==
    LET g == GCD(Abs(n), Abs(d))
        s == IF d < 0 THEN -1 ELSE 1
    IN  [n |-> s * (n \div g), d |-> s * (d \div g)]

Whole(i) == [n |-> i, d |-> 1]

Raise(name) == [exc |-> name]

IsExc(x) == "exc" \in DOMAIN x

IsNum(x) == DOMAIN x = {"n", "d"}

NoneValue == [none |-> TRUE]

Min(S) == CHOOSE i \in S : \A j \in S : i <= j

\* x + y
Add(x, y) ==
    IF IsExc(x) THEN x
    ELSE IF IsExc(y) THEN y
    ELSE LET g == GCD(x.d, y.d)
         IN  Frac(x.n * (y.d \div g) + y.n * (x.d \div g), (x.d \div g) * y.d)

\* x * y
Mul(x, y) ==
    IF IsExc(x) THEN x
    ELSE IF IsExc(y) THEN y
    ELSE LET g1 == GCD(Abs(x.n), y.d)
             g2 == GCD(Abs(y.n), x.d)
         IN  [n |-> (x.n \div g1) * (y.n \div g2),
              d |-> (x.d \div g2) * (y.d \div g1)]

\* x / y: Python raises ZeroDivisionError for a zero divisor, int or float
DivByZeroAsZero(x, y) ==
    IF IsExc(x) THEN x
    ELSE IF IsExc(y) THEN y
    ELSE IF y.n = 0 THEN Whole(0)
    ELSE Mul(x, Frac(y.d, y.n))

Div(x, y) ==
    IF IsExc(x) THEN x
    ELSE IF IsExc(y) THEN y
    ELSE IF y.n = 0 THEN Raise("ZeroDivisionError")
    ELSE Mul(x, Frac(y.d, y.n))

\* x ** 2
Pow2(x) == Mul(x, x)

\* floor of the rational n/d, d > 0
Floor(n, d) == n \div d

\* round(x, 3) and the "%.3f" conversion: the nearest multiple of 1/1000,
\* a tie going to the even one
Round3(x) ==
    IF IsExc(x) THEN x
    ELSE LET num == x.n * 1000
             q   == Floor(num, x.d)
             r2  == 2 * (num - q * x.d)
             up  == r2 > x.d \/ (r2 = x.d /\ q % 2 = 1)
         IN  Frac(IF up THEN q + 1 ELSE q, 1000)

(***************************************************************************)
(* class Training and its subclasses.  An instance is a record of its      *)
(* class name (self.__class__.__name__) and its attributes.                *)
(***************************************************************************)
NoTraining == [cls |-> "None"]

\* class attributes; Swimming overrides LEN_STEP
LEN_STEP(self) == IF self.cls = "Swimming" THEN Frac(138, 100) ELSE Frac(65, 100)

M_IN_KM == Whole(1000)

H_TO_M == Whole(60)

CALORIES_MEAN_SPEED_MULTIPLIER == Whole(18)

CALORIES_MEAN_SPEED_SHIFT == Frac(179, 100)

CALORIES_WEIGHT_MULTIPLIER == Frac(35, 1000)

CALORIES_WEIGHT_MULTIPLIER2 == Frac(29, 1000)

TRN_TO_MS == Round3(Div(Whole(1000), Whole(3600)))

MTR == Whole(100)

const_cal == Frac(11, 10)

const_cal2 == Whole(2)

\* Running.__init__ -> Training.__init__
Running(action, duration, weight) ==
    [cls |-> "Running", action |-> action, duration |-> duration, weight |-> weight]

\* SportsWalking.__init__
SportsWalking(action, duration, weight, height) ==
    [cls |-> "SportsWalking", action |-> action, duration |-> duration,
     weight |-> weight, height |-> height]

\* Swimming.__init__
SwimmingPoolFieldsSwapped(action, duration, weight, lenght_pool, count_pool) ==
    [cls |-> "Swimming", action |-> action, duration |-> duration,
     weight |-> weight, lenght_pool |-> count_pool, count_pool |-> lenght_pool]

Swimming(action, duration, weight, lenght_pool, count_pool) ==
    [cls |-> "Swimming", action |-> action, duration |-> duration,
     weight |-> weight, lenght_pool |-> lenght_pool, count_pool |-> count_pool]

\* Training.get_distance (inherited by all three subclasses)
get_distance_FloorDiv(self) ==
    LET metres == Mul(self.action, LEN_STEP(self))
    IN  Whole(Floor(metres.n, metres.d * 1000))

get_distance(self) == Div(Mul(self.action, LEN_STEP(self)), M_IN_KM)

\* Training.get_mean_speed
Training_get_mean_speed(self) == Div(get_distance(self), self.duration)

\* Swimming.get_mean_speed
Swimming_get_mean_speed(self) ==
    Div(Div(Mul(self.lenght_pool, self.count_pool), M_IN_KM), self.duration)

\* self.get_mean_speed(): the method the instance's class resolves it to
get_mean_speed_NoOverride(self) == Training_get_mean_speed(self)

get_mean_speed(self) ==
    IF self.cls = "Swimming" THEN Swimming_get_mean_speed(self)
    ELSE Training_get_mean_speed(self)

\* Running.get_spent_calories
Running_get_spent_calories_ShiftUnparenthesised(self) ==
    Add(Mul(CALORIES_MEAN_SPEED_MULTIPLIER, get_mean_speed(self)),
        Mul(Mul(Div(Mul(CALORIES_MEAN_SPEED_SHIFT, self.weight), M_IN_KM),
                self.duration),
            H_TO_M))

Running_get_spent_calories(self) ==
    Mul(Mul(Div(Mul(Add(Mul(CALORIES_MEAN_SPEED_MULTIPLIER, get_mean_speed(self)),
                        CALORIES_MEAN_SPEED_SHIFT),
                    self.weight),
                M_IN_KM),
            self.duration),
        H_TO_M)

\* SportsWalking.get_spent_calories
SportsWalking_get_spent_calories(self) ==
    Mul(Add(Mul(CALORIES_WEIGHT_MULTIPLIER, self.weight),
            Mul(Div(Pow2(Mul(get_mean_speed(self), TRN_TO_MS)),
                    Div(self.height, MTR)),
                Mul(CALORIES_WEIGHT_MULTIPLIER2, self.weight))),
        Mul(self.duration, H_TO_M))

\* Swimming.get_spent_calories
Swimming_get_spent_calories(self) ==
    Mul(Mul(Mul(Add(get_mean_speed(self), const_cal), const_cal2), self.weight),
        self.duration)

\* self.get_spent_calories(); Training's own raises NotImplementedError
get_spent_calories(self) ==
    CASE self.cls = "Running"       -> Running_get_spent_calories(self)
      [] self.cls = "SportsWalking" -> SportsWalking_get_spent_calories(self)
      [] self.cls = "Swimming"      -> Swimming_get_spent_calories(self)
      [] OTHER                      -> Raise("NotImplementedError")

(***************************************************************************)
(* @dataclass InfoMessage.  The message field defaults to the template;    *)
(* its text is Cyrillic in the source and transliterated here.  A template *)
(* is the sequence of its literal pieces and replacement fields; a field   *)
(* "{self.duration:.3f}" has the argument name self, the attribute         *)
(* duration and the format spec .3f.                                       *)
(***************************************************************************)
NoInfo == [none |-> TRUE]

Lit(s) == [lit |-> s]

Field(arg, attr, spec) == [arg |-> arg, attr |-> attr, spec |-> spec]

message ==
    << Lit("Tip trenirovki "),      Field("self", "training_type", ""),
       Lit("; Dlitel'nost': "),     Field("self", "duration", ".3f"),
       Lit(" ch.; Distantsiya: "),  Field("self", "distance", ".3f"),
       Lit(" km; Sr. skorost': "),  Field("self", "speed", ".3f"),
       Lit(" km/ch; Potracheno kkal: "), Field("self", "calories", ".3f"),
       Lit(".") >>

InfoMessage(training_type, duration, distance, speed, calories) ==
    [training_type |-> training_type, duration |-> duration, distance |-> distance,
     speed |-> speed, calories |-> calories, message |-> message]

\* dataclasses.asdict: the fields by name
asdict(self) == self

\* format(value, spec): "" is str(value), ".3f" needs a number
format(value, spec) ==
    IF spec = "" THEN [str |-> value]
    ELSE IF IsNum(value) THEN [fixed3 |-> Round3(value)]
    ELSE Raise("ValueError")

\* one replacement field of str.format(**kwargs): the argument name is looked up
\* among the keyword arguments (KeyError), then the attribute on the value found
\* (a str or a number has none of the template's attributes: AttributeError)
FormatField(f, kwargs) ==
    IF f.arg \notin DOMAIN kwargs THEN Raise("KeyError")
    ELSE IF f.attr # "" THEN Raise("AttributeError")
    ELSE format(kwargs[f.arg], f.spec)

\* template.format(**kwargs): the pieces in order, the first failure raised
str_format(template, kwargs) ==
    LET out == [i \in 1..Len(template) |->
                    IF "lit" \in DOMAIN template[i] THEN template[i]
                    ELSE FormatField(template[i], kwargs)]
        bad == {i \in 1..Len(template) : IsExc(out[i])}
    IN  IF bad # {} THEN out[Min(bad)] ELSE [text |-> out]

\* InfoMessage.get_message
get_message(self) == str_format(self.message, asdict(self))

\* Training.show_training_info: the arguments are evaluated left to right
show_training_info_BaseSpeed(self) ==
    LET distance == get_distance(self)
        speed    == Training_get_mean_speed(self)
        calories == get_spent_calories(self)
    IN  IF IsExc(distance) THEN distance
        ELSE IF IsExc(speed) THEN speed
        ELSE IF IsExc(calories) THEN calories
        ELSE InfoMessage(self.cls, self.duration, distance, speed, calories)

show_training_info(self) ==
    LET distance == get_distance(self)
        speed    == get_mean_speed(self)
        calories == get_spent_calories(self)
    IN  IF IsExc(distance) THEN distance
        ELSE IF IsExc(speed) THEN speed
        ELSE IF IsExc(calories) THEN calories
        ELSE InfoMessage(self.cls, self.duration, distance, speed, calories)

(***************************************************************************)
(* read_package.                                                           *)
(***************************************************************************)
activites == [SWM |-> "Swimming", RUN |-> "Running", WLK |-> "SportsWalking"]

\* cls(*data): the sequence bound to __init__'s positional parameters; a wrong
\* number of them is a TypeError
CallPadded(cls, data) ==
    LET d == data \o <<Whole(100), Whole(100), Whole(100)>>
    IN  CASE cls = "Running"       -> Running(d[1], d[2], d[3])
          [] cls = "SportsWalking" -> SportsWalking(d[1], d[2], d[3], d[4])
          [] cls = "Swimming"      -> Swimming(d[1], d[2], d[3], d[4], d[5])

Call(cls, data) ==
    CASE cls = "Running" ->
            IF Len(data) # 3 THEN Raise("TypeError")
            ELSE Running(data[1], data[2], data[3])
      [] cls = "SportsWalking" ->
            IF Len(data) # 4 THEN Raise("TypeError")
            ELSE SportsWalking(data[1], data[2], data[3], data[4])
      [] cls = "Swimming" ->
            IF Len(data) # 5 THEN Raise("TypeError")
            ELSE Swimming(data[1], data[2], data[3], data[4], data[5])

read_package_ConstructFirst(workout_type, data) ==
    LET cls == IF workout_type \in DOMAIN activites THEN activites[workout_type]
               ELSE "Running"
        type_values == Call(cls, data)
    IN  IF IsExc(type_values) THEN type_values
        ELSE IF workout_type \notin DOMAIN activites THEN Raise("ValueError")
        ELSE type_values

read_package(workout_type, data) ==
    IF workout_type \notin DOMAIN activites THEN Raise("ValueError")
    ELSE Call(activites[workout_type], data)

(***************************************************************************)
(* The inputs: workout type codes and sensor data.                         *)
(***************************************************************************)
WorkoutTypes == {"SWM", "RUN", "WLK", "XYZ", "run"}

\* sensor data by length: with a, d, w the action, duration and weight, then
\* the height (4 values) or the pool length and the lap count (5 values)
Data2 == {<<Whole(15000), d>> : d \in {Whole(0), Whole(1)}}

Data3 ==
    {<<a, d, w>> : a \in {Whole(0), Whole(15000)},
                   d \in {Whole(0), Whole(1), Frac(1, 2)},
                   w \in {Whole(75), Whole(80)}}

Data4 ==
    {<<a, d, w, h>> : a \in {Whole(0), Whole(10000)},
                      d \in {Whole(0), Whole(1), Frac(1, 2)},
                      w \in {Whole(75)},
                      h \in {Whole(0), Whole(100), Whole(180)}}

Data5 ==
    {<<a, d, w, lp, cp>> : a \in {Whole(720)},
                           d \in {Whole(0), Whole(1), Frac(1, 2)},
                           w \in {Whole(80)},
                           lp \in {Whole(0), Whole(25), Whole(50)},
                           cp \in {Whole(0), Whole(40)}}

Data6 == {<<Whole(720), d, Whole(80), Whole(25), Whole(40), Whole(1)>> : d \in {Whole(0), Whole(1)}}

DataSeqs == Data2 \cup Data3 \cup Data4 \cup Data5 \cup Data6

(***************************************************************************)
(* The state machine: a caller that handles one package at a time, as the   *)
(* loop under __main__ does: it reads the package, then calls the methods  *)
(* of the instance it got.  The names training and info belong to the      *)
(* package being handled and are unbound when the next one is read.        *)
(***************************************************************************)
Queries == {"get_distance", "get_mean_speed", "get_spent_calories", "show_training_info"}

NoHistory == [q \in Queries \cup {"read_package"} |-> NoneValue]

Remember(q, ret) ==
    IF firstResult[q] = NoneValue THEN [firstResult EXCEPT ![q] = ret] ELSE firstResult

Init ==
    /\ training = NoTraining
    /\ info = NoInfo
    /\ lastCall = [op |-> "none"]
    /\ result = NoneValue
    /\ stdout = <<>>
    /\ firstResult = NoHistory

\* training = read_package(workout_type, data)
ReadPackage ==
    \E workout_type \in WorkoutTypes, data \in DataSeqs :
        LET ret == read_package(workout_type, data)
        IN  /\ lastCall' = [op |-> "read_package", workout_type |-> workout_type,
                            data |-> data]
            /\ result' = ret
            /\ training' = IF IsExc(ret) THEN NoTraining ELSE ret
            /\ info' = NoInfo
            /\ firstResult' = [NoHistory EXCEPT !["read_package"] = ret]
            /\ UNCHANGED stdout

\* training.get_distance()
GetDistance ==
    /\ training # NoTraining
    /\ lastCall' = [op |-> "get_distance", again |-> firstResult["get_distance"] # NoneValue]
    /\ result' = get_distance(training)
    /\ firstResult' = Remember("get_distance", result')
    /\ UNCHANGED <<training, info, stdout>>

\* training.get_mean_speed()
GetMeanSpeed ==
    /\ training # NoTraining
    /\ lastCall' = [op |-> "get_mean_speed", again |-> firstResult["get_mean_speed"] # NoneValue]
    /\ result' = get_mean_speed(training)
    /\ firstResult' = Remember("get_mean_speed", result')
    /\ UNCHANGED <<training, info, stdout>>

\* training.get_spent_calories()
GetSpentCaloriesScalingDuration ==
    /\ training # NoTraining
    /\ lastCall' = [op |-> "get_spent_calories", again |-> firstResult["get_spent_calories"] # NoneValue]
    /\ result' = get_spent_calories(training)
    /\ firstResult' = Remember("get_spent_calories", result')
    /\ training' = [training EXCEPT !.duration = Mul(@, H_TO_M)]
    /\ UNCHANGED <<info, stdout>>

GetSpentCalories ==
    /\ training # NoTraining
    /\ lastCall' = [op |-> "get_spent_calories", again |-> firstResult["get_spent_calories"] # NoneValue]
    /\ result' = get_spent_calories(training)
    /\ firstResult' = Remember("get_spent_calories", result')
    /\ UNCHANGED <<training, info, stdout>>

\* info = training.show_training_info()
ShowTrainingInfo ==
    /\ training # NoTraining
    /\ lastCall' = [op |-> "show_training_info", again |-> firstResult["show_training_info"] # NoneValue]
    /\ result' = show_training_info(training)
    /\ info' = IF IsExc(result') THEN info ELSE result'
    /\ firstResult' = Remember("show_training_info", result')
    /\ UNCHANGED <<training, stdout>>

\* info.get_message()
GetMessage ==
    /\ info # NoInfo
    /\ lastCall' = [op |-> "get_message"]
    /\ result' = get_message(info)
    /\ UNCHANGED <<training, info, stdout, firstResult>>

\* main(training): prints info.message, the message field as stored
Main ==
    /\ training # NoTraining
    /\ Len(stdout) < MaxPrints
    /\ LET ret == show_training_info(training)
       IN  /\ lastCall' = [op |-> "main"]
           /\ firstResult' = Remember("show_training_info", ret)
           /\ IF IsExc(ret)
              THEN /\ result' = ret
                   /\ UNCHANGED <<info, stdout>>
              ELSE /\ result' = NoneValue
                   /\ info' = ret
                   /\ stdout' = Append(stdout, ret.message)
    /\ UNCHANGED training

Next ==
    \/ ReadPackage
    \/ GetDistance
    \/ GetMeanSpeed
    \/ GetSpentCalories
    \/ ShowTrainingInfo
    \/ GetMessage
    \/ Main

Spec == Init /\ [][Next]_vars

(***************************************************************************)
(* Properties.                                                             *)
(***************************************************************************)
Zero == Whole(0)

Codes == {"SWM", "RUN", "WLK"}

\* the number of sensor values each code's variant takes
Arity(code) == CASE code = "RUN" -> 3 [] code = "WLK" -> 4 [] code = "SWM" -> 5

AfterReadPackage == lastCall.op = "read_package"

\* action x stepLength / 1000, with the step length the variant fixes
StepDistance(self) ==
    Div(Mul(self.action, IF self.cls = "Swimming" THEN Frac(138, 100) ELSE Frac(65, 100)),
        Whole(1000))

\* values to vary a field over
OtherValues == {Zero, Whole(1), Frac(1, 2), Whole(25), Whole(50), Whole(75), Whole(180)}

\* C1: for a recognized code and a data sequence of the variant's arity,
\* read_package returns an instance of the matching class (SWM -> Swimming,
\* RUN -> Running, WLK -> SportsWalking) whose attributes hold the data values
\* in order: action, duration, weight, then height, or pool length and lap count.
C1_ReadPackageBuildsVariant ==
    (AfterReadPackage /\ lastCall.workout_type \in Codes
        /\ Len(lastCall.data) = Arity(lastCall.workout_type))
    => LET data == lastCall.data
       IN  /\ ~IsExc(result)
           /\ training = result
           /\ result.action = data[1]
           /\ result.duration = data[2]
           /\ result.weight = data[3]
           /\ CASE lastCall.workout_type = "RUN" ->
                    /\ result.cls = "Running"
                    /\ DOMAIN result = {"cls", "action", "duration", "weight"}
                [] lastCall.workout_type = "WLK" ->
                    /\ result.cls = "SportsWalking"
                    /\ DOMAIN result = {"cls", "action", "duration", "weight", "height"}
                    /\ result.height = data[4]
                [] lastCall.workout_type = "SWM" ->
                    /\ result.cls = "Swimming"
                    /\ DOMAIN result = {"cls", "action", "duration", "weight",
                                        "lenght_pool", "count_pool"}
                    /\ result.lenght_pool = data[4]
                    /\ result.count_pool = data[5]

C1_Witness ==
    /\ AfterReadPackage
    /\ lastCall.workout_type = "SWM"
    /\ Len(lastCall.data) = 5
    /\ lastCall.data[4] # lastCall.data[5]
    /\ training.cls = "Swimming"

\* C2: for a code other than SWM, RUN and WLK, read_package raises ValueError
\* and returns no instance, whatever the data and its length: no TypeError is
\* reported for an unrecognized code.
C2_UnknownCodeIsValueError ==
    (AfterReadPackage /\ lastCall.workout_type \notin Codes)
    => /\ result = Raise("ValueError")
       /\ training = NoTraining

C2_Witness ==
    /\ AfterReadPackage
    /\ lastCall.workout_type = "run"
    /\ Len(lastCall.data) \notin {3, 4, 5}
    /\ result = Raise("ValueError")

\* C3: Running(action=15000, duration=1, weight=75)
Running15000 == Running(Whole(15000), Whole(1), Whole(75))

Running15000Calories ==
    Mul(Mul(Div(Mul(Add(Mul(Whole(18), Frac(975, 100)), Frac(179, 100)), Whole(75)),
                Whole(1000)),
            Whole(1)),
        Whole(60))

\* C3 as stated: for Running(15000, 1, 75) the distance is 9.750 km, the mean
\* speed 9.750 km/h and the calories, (18 x speed + 1.79) x weight / 1000 x
\* duration x 60, are 798.929 to 3 decimals.
C3_Running15000_AsStated ==
    training = Running15000
    => /\ lastCall.op = "get_distance" => Round3(result) = Frac(9750, 1000)
       /\ lastCall.op = "get_mean_speed" => Round3(result) = Frac(9750, 1000)
       /\ lastCall.op = "get_spent_calories"
            => /\ result = Running15000Calories
               /\ Round3(result) = Frac(798929, 1000)

\* C3, amended: for Running(15000, 1, 75) the distance is 9.750 km, the mean
\* speed 9.750 km/h and the calories, (18 x speed + 1.79) x weight / 1000 x
\* duration x 60, are 797.805 to 3 decimals.
C3_Running15000 ==
    training = Running15000
    => /\ lastCall.op = "get_distance" => Round3(result) = Frac(9750, 1000)
       /\ lastCall.op = "get_mean_speed" => Round3(result) = Frac(9750, 1000)
       /\ lastCall.op = "get_spent_calories"
            => /\ result = Running15000Calories
               /\ Round3(result) = Frac(797805, 1000)

C3_Witness ==
    /\ training = Running15000
    /\ lastCall.op = "get_spent_calories"
    /\ IsNum(result)
    /\ firstResult["get_distance"] = Frac(975, 100)
    /\ firstResult["get_mean_speed"] = Frac(975, 100)

\* the Swimming instance with another pool length
WithPool(self, lp) == [self EXCEPT !.lenght_pool = lp]

SwimmingFormulas(self) ==
    /\ get_distance(self) = Div(Mul(self.action, Frac(138, 100)), Whole(1000))
    /\ get_mean_speed(self)
         = Div(Div(Mul(self.lenght_pool, self.count_pool), Whole(1000)), self.duration)
    /\ lastCall.op = "get_distance" => result = get_distance(self)
    /\ lastCall.op = "get_mean_speed" => result = get_mean_speed(self)
    \* the distance does not depend on the pool length or the lap count
    /\ \A lp \in OtherValues, cp \in OtherValues :
          get_distance([self EXCEPT !.lenght_pool = lp, !.count_pool = cp])
            = get_distance(self)
    \* the mean speed does not depend on the action
    /\ \A a \in OtherValues :
          get_mean_speed([self EXCEPT !.action = a]) = get_mean_speed(self)

\* C4 as stated: for a Swimming instance with nonzero duration the distance is
\* action x 1.38 / 1000 whatever the pool length and lap count, the mean speed
\* is pool length x lap count / 1000 / duration whatever the action, and
\* changing only the pool length changes the mean speed and not the distance.
C4_SwimmingIndependent_AsStated ==
    (training.cls = "Swimming" /\ training.duration # Zero)
    => /\ SwimmingFormulas(training)
       /\ \A lp \in OtherValues \ {training.lenght_pool} :
             /\ get_mean_speed(WithPool(training, lp)) # get_mean_speed(training)
             /\ get_distance(WithPool(training, lp)) = get_distance(training)

\* C4, amended: the same, the mean speed changing with the pool length when
\* the lap count is nonzero (with a lap count of 0 the mean speed is 0 for
\* every pool length).
C4_SwimmingIndependent ==
    (training.cls = "Swimming" /\ training.duration # Zero)
    => /\ SwimmingFormulas(training)
       /\ \A lp \in OtherValues \ {training.lenght_pool} :
             /\ training.count_pool # Zero
                  => get_mean_speed(WithPool(training, lp)) # get_mean_speed(training)
             /\ training.count_pool = Zero
                  => get_mean_speed(WithPool(training, lp)) = Zero
             /\ get_distance(WithPool(training, lp)) = get_distance(training)

C4_Witness ==
    /\ training.cls = "Swimming"
    /\ training.duration # Zero
    /\ training.count_pool # Zero
    /\ training.lenght_pool # Zero
    /\ lastCall.op = "get_mean_speed"
    /\ IsNum(result)
    /\ result # Zero
    /\ IsNum(firstResult["get_distance"])
    /\ firstResult["get_distance"] # Training_get_mean_speed(training)

\* C5: get_distance is linear in the action for all three classes: with the
\* action doubled the distance is exactly twice as large; it is action x 0.65 /
\* 1000 for Running and SportsWalking and action x 1.38 / 1000 for Swimming,
\* whatever the duration, the weight and the class's own attributes.
C5_DistanceLinearInAction ==
    training # NoTraining
    => /\ get_distance([training EXCEPT !.action = Mul(Whole(2), @)])
            = Mul(Whole(2), get_distance(training))
       /\ get_distance(training) = StepDistance(training)
       /\ lastCall.op = "get_distance" => result = StepDistance(training)
       /\ \A d \in OtherValues, w \in OtherValues :
             get_distance([training EXCEPT !.duration = d, !.weight = w])
               = get_distance(training)
       /\ training.cls = "SportsWalking"
            => \A h \in OtherValues :
                  get_distance([training EXCEPT !.height = h]) = get_distance(training)
       /\ training.cls = "Swimming"
            => \A lp \in OtherValues, cp \in OtherValues :
                  get_distance([training EXCEPT !.lenght_pool = lp, !.count_pool = cp])
                    = get_distance(training)

C5_Witness ==
    /\ training.cls = "Swimming"
    /\ training.action # Zero
    /\ lastCall.op = "get_distance"
    /\ result = Frac(9936, 10000)

\* C6: the queries leave every attribute of the instance as read_package set
\* it, and a query called again returns what its first call on the instance
\* returned.
C6_QueriesChangeNothing ==
    training # NoTraining
    => /\ training = firstResult["read_package"]
       /\ lastCall.op \in Queries => result = firstResult[lastCall.op]
       /\ (lastCall.op = "main" /\ IsExc(result))
            => result = firstResult["show_training_info"]
       /\ (info # NoInfo) => info = firstResult["show_training_info"]

C6_Witness ==
    /\ lastCall.op = "get_spent_calories"
    /\ lastCall.again
    /\ IsNum(result)
    /\ \A q \in Queries : firstResult[q] # NoneValue
    /\ Len(stdout) > 0

\* the name each class has in a summary, as stated and as the code has it
DisplayName(cls) ==
    CASE cls = "Running" -> "Running"
      [] cls = "SportsWalking" -> "Walking"
      [] cls = "Swimming" -> "Swimming"

ClassName(cls) ==
    CASE cls = "Running" -> "Running"
      [] cls = "SportsWalking" -> "SportsWalking"
      [] cls = "Swimming" -> "Swimming"

SummaryMatchesQueries(self, summary) ==
    /\ summary.duration = self.duration
    /\ summary.distance = get_distance(self)
    /\ summary.speed = get_mean_speed(self)
    /\ summary.calories = get_spent_calories(self)
    /\ \A q \in {"get_distance", "get_mean_speed", "get_spent_calories"} :
          firstResult[q] # NoneValue
            => firstResult[q] = (CASE q = "get_distance" -> summary.distance
                                   [] q = "get_mean_speed" -> summary.speed
                                   [] q = "get_spent_calories" -> summary.calories)
    /\ self.cls = "Swimming"
         => summary.speed
              = Div(Div(Mul(self.lenght_pool, self.count_pool), Whole(1000)),
                    self.duration)

\* C7 as stated: the summary show_training_info returns has the display name
\* Running, Walking or Swimming, the stored duration, and the distance, speed
\* and calories the three queries return on the instance (for Swimming the
\* lap-based speed).
C7_SummaryOfQueries_AsStated ==
    (training # NoTraining /\ lastCall.op = "show_training_info" /\ ~IsExc(result))
    => /\ result.training_type = DisplayName(training.cls)
       /\ SummaryMatchesQueries(training, result)

\* C7, amended: whenever the three queries return values (the duration is
\* nonzero and, for SportsWalking, the height is nonzero) show_training_info
\* returns a summary; its type name is the class name, Running, SportsWalking
\* or Swimming; it has the stored duration, and the distance, speed and
\* calories the three queries return on the instance (for Swimming the
\* lap-based speed).
C7_SummaryOfQueries ==
    (training # NoTraining /\ lastCall.op = "show_training_info")
    => /\ (training.duration # Zero
             /\ (training.cls = "SportsWalking" => training.height # Zero))
            => ~IsExc(result)
       /\ ~IsExc(result)
            => /\ result.training_type = ClassName(training.cls)
               /\ SummaryMatchesQueries(training, result)

C7_Witness ==
    /\ training.cls = "SportsWalking"
    /\ lastCall.op = "show_training_info"
    /\ ~IsExc(result)
    /\ result.training_type = "SportsWalking"
    /\ result.distance # Zero
    /\ IsNum(firstResult["get_spent_calories"])

\* the line a summary is rendered to: the template with each field replaced
Rendered(summary) ==
    [text |->
        << message[1],  [str |-> summary.training_type],
           message[3],  [fixed3 |-> Round3(summary.duration)],
           message[5],  [fixed3 |-> Round3(summary.distance)],
           message[7],  [fixed3 |-> Round3(summary.speed)],
           message[9],  [fixed3 |-> Round3(summary.calories)],
           message[11] >>]

\* C8: get_message succeeds for every summary and returns the line in which the
\* template's five fields are replaced by the type name, the duration, the
\* distance, the mean speed and the calories, the numbers to 3 decimals; it
\* never returns the template with its fields unreplaced.
C8_GetMessageRenders ==
    lastCall.op = "get_message"
    => /\ ~IsExc(result)
       /\ result = Rendered(info)
       /\ result # [text |-> info.message]

\* C9: for a recognized code and a data sequence whose length is not the
\* variant's parameter count (3 for RUN, 4 for WLK, 5 for SWM) read_package
\* raises TypeError, which is not the ValueError of an unrecognized code, and
\* returns no instance; a sequence of the right length is never rejected.
C9_WrongArityIsTypeError ==
    (AfterReadPackage /\ lastCall.workout_type \in Codes)
    => IF Len(lastCall.data) # Arity(lastCall.workout_type)
       THEN /\ result = Raise("TypeError")
            /\ result # Raise("ValueError")
            /\ training = NoTraining
       ELSE /\ ~IsExc(result)
            /\ training = result

C9_Witness ==
    /\ AfterReadPackage
    /\ lastCall.workout_type = "WLK"
    /\ Len(lastCall.data) = 5
    /\ result = Raise("TypeError")
    /\ training = NoTraining

\* C10: nothing is validated at construction: an instance with duration 0, or a
\* SportsWalking instance with height 0, is constructed and its get_distance
\* returns action x step length / 1000; with duration 0 get_mean_speed,
\* get_spent_calories and show_training_info raise ZeroDivisionError, and with
\* height 0 SportsWalking's get_spent_calories and show_training_info do.
C10_ZeroDivisionUnguarded ==
    /\ (AfterReadPackage /\ lastCall.workout_type \in Codes
          /\ Len(lastCall.data) = Arity(lastCall.workout_type)
          /\ (lastCall.data[2] = Zero
                \/ (lastCall.workout_type = "WLK" /\ lastCall.data[4] = Zero)))
         => (~IsExc(result) /\ training = result)
    /\ (training # NoTraining /\ training.duration = Zero)
         => /\ lastCall.op = "get_distance" => result = StepDistance(training)
            /\ lastCall.op \in {"get_mean_speed", "get_spent_calories",
                                "show_training_info", "main"}
                 => result = Raise("ZeroDivisionError")
    /\ (training.cls = "SportsWalking" /\ training.height = Zero)
         => /\ lastCall.op = "get_distance" => result = StepDistance(training)
            /\ lastCall.op \in {"get_spent_calories", "show_training_info", "main"}
                 => result = Raise("ZeroDivisionError")

C10_Witness ==
    /\ training.cls = "SportsWalking"
    /\ training.height = Zero
    /\ training.duration # Zero
    /\ training.action # Zero
    /\ lastCall.op = "get_spent_calories"
    /\ result = Raise("ZeroDivisionError")
    /\ IsNum(firstResult["get_mean_speed"])

====
